---- MODULE Spec2Model ----
(***************************************************************************)
(* Model of PyLoopKit's carb absorption mapping (carb_math.map_) and of    *)
(* the dose store entry points (dose_store.py).                            *)
(*                                                                         *)
(* Times are whole minutes.  Python floats are modelled as exact rationals *)
(* <<numerator, denominator>> in lowest terms with a positive denominator. *)
(* None is modelled by the time value None == -1 (no real time is          *)
(* negative in the model).                                                 *)
(*                                                                         *)
(* map_ is modelled as: Call (lines 74-143), one Sample step per iteration *)
(* of the loop at line 165 (the whole body, walk over the active entries   *)
(* included), and Finish (lines 316-328).  The number of effect samples is *)
(* drawn in Init; the sample at position index is drawn when the loop      *)
(* reaches it.                                                             *)
(***************************************************************************)
EXTENDS Integers, Sequences, FiniteSets, TLC

\* ---------------------------------------------------------------- bounds
MaxEntries == 2
MaxEffects == 2
MaxTime == 1

Times == 0..MaxTime
None == -1

\* ------------------------------------------------------- exact arithmetic
Abs(n) == IF n < 0 THEN -n ELSE n

RECURSIVE GCD(_, _)
GCD(a, b) == IF b = 0 THEN a ELSE GCD(b, a % b)

Norm(n, d) ==
    LET s == IF d < 0 THEN -1 ELSE 1
        g == GCD(Abs(n), Abs(d))
    IN  <<(s * n) \div g, (s * d) \div g>>

R(n) == <<n, 1>>
Zero == R(0)
RAdd(a, b) == Norm(a[1] * b[2] + b[1] * a[2], a[2] * b[2])
RSub(a, b) == Norm(a[1] * b[2] - b[1] * a[2], a[2] * b[2])
RMul(a, b) == Norm(a[1] * b[1], a[2] * b[2])
RDiv(a, b) == Norm(a[1] * b[2], a[2] * b[1])
RLt(a, b) == a[1] * b[2] < b[1] * a[2]
RLe(a, b) == a[1] * b[2] <= b[1] * a[2]
RMin(a, b) == IF RLt(b, a) THEN b ELSE a
RMax(a, b) == IF RLt(a, b) THEN b ELSE a

\* sys.float_info.epsilon: a positive number below every positive amount
\* the model can produce
Epsilon == <<1, 1000000>>

\* ------------------------------------------------------------ input sets
Quantities == {0, 1}
Absorptions == {None, 1}
EffectValues == {-1, 1, 3}
AbsorptionTimeOverruns == {0, 1}
DefaultAbsorptionTimes == {2}
Delays == {0, 1}

CarbEntry == [start : Times, quantity : Quantities, absorption : Absorptions]
\* an effect sample spans one minute of the timeline, or is the degenerate
\* sample with start = end, whose value map_ never reads (lines 167-168):
\* one value stands for all
EffectSample ==
    {s \in [start : Times, end : 0..(MaxTime + 1), value : EffectValues] :
        \/ s.end = s.start + 1
        \/ s.end = s.start /\ s.value = 1}
NoSample == [start |-> None, end |-> None, value |-> 0]

\* a schedule is a sequence of [start, value] entries; the schedules the
\* model feeds cover every time with one entry
Schedule(v) == <<[start |-> 0, value |-> v]>>
SensitivitySchedules == {<<>>, Schedule(2)}
CarbRatioSchedules == {<<>>, Schedule(1)}

VARIABLES
    pc,                         \* "call", "loop", "done", "raised", "idle"
    carb_entries,               \* carb_entry_starts/quantities/absorptions
    carb_ratios,                \* carb_ratio_starts, carb_ratios
    sensitivities,              \* sensitivity_starts/ends/values
    absorption_time_overrun,
    default_absorption_time,
    delay,
    num_effects,                \* len(effect_starts)
    builders,                   \* builder_* lists and entry_effects
    index,                      \* samples taken by the loop so far
    sample,                     \* the sample of the last iteration
    uniform,                    \* all samples so far carry the same value
    observed_effects,
    observed_completion_dates,
    observed_timelines,         \* observed_timeline_starts/ends/carb_values
    step,                       \* what the last iteration did, per entry
    result,                     \* (absorptions, timelines, entries)
    error                       \* the exception map_ raised, or "none"

mapVars == <<pc, carb_entries, carb_ratios, sensitivities,
             absorption_time_overrun, default_absorption_time, delay,
             num_effects, builders, index, sample, uniform,
             observed_effects, observed_completion_dates,
             observed_timelines, step, result, error>>

\* dose_store.py: one call of an entry point, statement by statement
VARIABLES
    d_fn,                       \* the entry point called
    d_pc,                       \* the statement the call is at
    d_types,                    \* types
    d_starts,                   \* starts
    d_ends_len,                 \* len(ends); dose_store.py reads no element
    d_values_len,               \* len(values); likewise
    insulin_model,
    start_date,                 \* start_date, or now_time
    end_date,
    dose_start,
    d_doses,                    \* the dose lists as the pipeline holds them
    d_trace,                    \* the steps carried out so far, in order
    d_result,
    d_error

doseVars == <<d_fn, d_pc, d_types, d_starts, d_ends_len, d_values_len,
              insulin_model, start_date, end_date, dose_start, d_doses,
              d_trace, d_result, d_error>>

\* the caller: it may call a function a second time with the same arguments
VARIABLES
    call_no,                    \* 1 for the first call, 2 for the second
    first_output,               \* what the first call returned or raised
    arguments,                  \* the caller's own copy of the arguments
    effects                     \* effect_starts/ends/values, when given whole

callerVars == <<call_no, first_output, arguments, effects>>

\* linear_percent_absorption_at_time, applied along a time axis
VARIABLES
    lin_pc,                     \* "call", "returned", "idle"
    lin_time,                   \* time
    lin_absorption_time,        \* absorption_time
    lin_percent,                \* the value returned for lin_time
    lin_previous                \* the time before lin_time and its value

linearVars == <<lin_pc, lin_time, lin_absorption_time, lin_percent,
                lin_previous>>

\* --------------------------------------------------- schedule lookup
\* find_ratio_at_time: the value of the schedule entry whose interval
\* [start_i, start_{i+1}) holds t (the last entry is open-ended)
FindRatioAtTime(schedule, t) ==
    LET i == CHOOSE j \in 1..Len(schedule) :
                /\ schedule[j].start <= t
                /\ (j = Len(schedule) \/ t < schedule[j + 1].start)
    IN  schedule[i].value

\* time_interval_since(a, b): seconds from b to a
TimeIntervalSince(a, b) == (a - b) * 60

\* ------------------------------------------------ per-entry derived data
builder_entry_indexes == 1..Len(carb_entries)

\* lines 94-108
CarbSensitivity(entry) ==
    RDiv(R(FindRatioAtTime(sensitivities, entry.start)),
         R(FindRatioAtTime(carb_ratios, entry.start)))

\* lines 111-116: (carb_entry_absorptions[i] or default) * overrun
MaxAbsorbTime(entry) ==
    (IF entry.absorption = None \/ entry.absorption = 0
     THEN default_absorption_time
     ELSE entry.absorption) * absorption_time_overrun

\* lines 118-122
MaxEndDate(entry) == entry.start + MaxAbsorbTime(entry) + delay

\* lines 129-132
EntryEffect(entry) == RMul(R(entry.quantity), CarbSensitivity(entry))

\* the lists map_ builds once, as the variable builders holds them
builder_carb_sensitivities(i) == builders[i].carb_sensitivity
builder_max_absorb_times(i) == builders[i].max_absorb_time
builder_max_end_dates(i) == builders[i].max_end_date
entry_effects(i) == builders[i].entry_effect

\* carb_entry_quantities[i] / builder_max_absorb_times[i]; only evaluated
\* where the divisor is known to be non-zero
Rate(i) == RDiv(R(carb_entries[i].quantity), R(builder_max_absorb_times(i)))

\* ------------------------------------------------------ linear model
\* lines 357-361 with the quotient of line 360 taken in whole numbers
whole_percent_absorption_at_time(time, absorption_time) ==
    IF time <= 0 THEN Zero
    ELSE IF time < absorption_time THEN R(time \div absorption_time)
    ELSE R(1)

\* lines 357-361
linear_percent_absorption_at_time(time, absorption_time) ==
    IF time <= 0 THEN Zero
    ELSE IF time < absorption_time THEN RDiv(R(time), R(absorption_time))
    ELSE R(1)

linearly_absorbed_carbs(total, time, absorption_time) ==
    RMul(R(total), linear_percent_absorption_at_time(time, absorption_time))

\* ------------------------------------------------- the loop body, 165-234
\* line 146: the guard of add_next_effect
AddNextEffectReturns(entry_start, start) == entry_start < start

\* line 151 without its condition: the timeline is extended at every credit
RecordingAlways(completion_date) == TRUE

\* line 151: if not observed_completion_dates[entry_index]
Recording(completion_date) == completion_date = None

\* lines 145-163, applied to the accumulators w; overrun tells the two
\* call sites (217 and 229) apart for the bookkeeping in step
add_next_effect(w, entry_index, effect, start, end, overrun) ==
    IF AddNextEffectReturns(carb_entries[entry_index].start, start) THEN w
    ELSE
    LET observed == RAdd(w.observed[entry_index], effect)
        recording == Recording(w.completion[entry_index])
        done == recording /\ RLe(entry_effects(entry_index), observed)
    IN  [w EXCEPT
          !.observed[entry_index] = observed,
          !.timelines[entry_index] =
              IF recording
              THEN Append(@, [start |-> start, end |-> end,
                              value |-> RDiv(effect,
                                  builder_carb_sensitivities(entry_index))])
              ELSE @,
          !.completion[entry_index] = IF done THEN end ELSE @,
          !.credited[entry_index] = IF overrun THEN @ ELSE RAdd(@, effect),
          !.overrun[entry_index] = IF overrun THEN RAdd(@, effect) ELSE @]

\* lines 172-176 without the second condition of line 175
unended_builders(s) ==
    SelectSeq([j \in builder_entry_indexes |-> j],
              LAMBDA j : s.start < builder_max_end_dates(j))

\* lines 172-176
active_builders(s) ==
    SelectSeq([j \in builder_entry_indexes |-> j],
              LAMBDA j : /\ s.start < builder_max_end_dates(j)
                         /\ s.start >= carb_entries[j].start)

\* lines 183-197: reduce_func and the loop that feeds it
RECURSIVE SumRates(_, _, _, _)
SumRates(active, k, previous, total_rate) ==
    IF k > Len(active) THEN total_rate
    ELSE LET rate_increase == RAdd(previous, Rate(active[k]))
         IN  SumRates(active, k + 1, rate_increase,
                      RAdd(total_rate, rate_increase))

TotalRate(active) == SumRates(active, 1, Zero, Zero)

\* lines 205-211 with max for min: the entry takes its whole expected effect
PartialEffectValueMax(remaining_effect, rate, total_rate, effect_value) ==
    RMax(remaining_effect,
         IF total_rate # Zero /\ effect_value # Zero
         THEN RMul(RDiv(rate, total_rate), effect_value)
         ELSE Zero)

\* lines 205-211
PartialEffectValue(remaining_effect, rate, total_rate, effect_value) ==
    RMin(remaining_effect,
         IF total_rate # Zero /\ effect_value # Zero
         THEN RMul(RDiv(rate, total_rate), effect_value)
         ELSE Zero)

\* line 227: b_index is an entry index counted from 0
IsFinalEntry(b_index, active) == (b_index - 1) = (Len(active) - 1)

\* lines 199-234 for the active entry b_index
WalkEntry(w, b_index, active, s) ==
    LET remaining_effect == RMax(entry_effects(b_index), Zero)
        partial_effect_value ==
            PartialEffectValue(remaining_effect, Rate(b_index),
                               w.total_rate, w.effect_value)
        w1 == [w EXCEPT !.total_rate = RSub(@, Rate(b_index)),
                        !.effect_value = RSub(@, partial_effect_value),
                        !.partial[b_index] = partial_effect_value]
        w2 == add_next_effect(w1, b_index, partial_effect_value,
                              s.start, s.end, FALSE)
    IN  IF RLt(Epsilon, w1.effect_value) /\ IsFinalEntry(b_index, active)
        THEN add_next_effect(w2, b_index, w1.effect_value,
                             s.start, s.end, TRUE)
        ELSE w2

\* lines 199-234, from the k-th active entry on
RECURSIVE Walk(_, _, _, _)
Walk(w, active, k, s) ==
    IF k > Len(active) THEN w
    ELSE Walk(WalkEntry(w, active[k], active, s), active, k + 1, s)

Zeros == [i \in builder_entry_indexes |-> Zero]

\* an accumulator list that outlives the call, in place of line 134
KeptObservedEffects ==
    IF Len(observed_effects) = Len(carb_entries) THEN observed_effects
    ELSE Zeros

\* line 134: observed_effects = [0 for i in builder_entry_indexes]
NewObservedEffects == Zeros

\* line 181 without the clamp
SignedEffectValue(value) == R(value)

\* line 181: effect_value = max(0, effect_values[index])
ClampedEffectValue(value) == RMax(Zero, R(value))

\* the accumulators at the top of an iteration
WalkStart(active, s) ==
    [total_rate |-> TotalRate(active),
     effect_value |-> ClampedEffectValue(s.value),
     observed |-> observed_effects,
     completion |-> observed_completion_dates,
     timelines |-> observed_timelines,
     partial |-> Zeros, credited |-> Zeros, overrun |-> Zeros]

\* previous_end is kept for a skipped sample only: the end of the sample
\* before it, None when it is the first
NoStep == [kind |-> "none", active |-> <<>>, total_rate |-> Zero,
           effect_value |-> Zero, remainder |-> Zero,
           partial |-> <<>>, credited |-> <<>>, overrun |-> <<>>,
           previous_end |-> None]

\* ------------------------------------------------------ results, 236-314
\* lines 124-127: effect_ends[len(effect_ends)-1].  The effect lists are
\* fixed for the call, so the value line 125 reads is the end of the sample
\* the loop draws last; it is only used after the loop.
last_effect_dates == sample.end

\* lines 256-259 without the cap at the entry's grams
ClampedGramsUncapped(entry_grams, min_predicted_grams, observed_grams) ==
    RMax(min_predicted_grams, observed_grams)

\* lines 256-259
ClampedGrams(entry_grams, min_predicted_grams, observed_grams) ==
    RMin(entry_grams, RMax(min_predicted_grams, observed_grams))

ObservedGrams(i) == RDiv(observed_effects[i], builder_carb_sensitivities(i))

\* lines 245-250 (and 286-291): minutes from the entry to the last effect
ElapsedTime(i) ==
    (TimeIntervalSince(last_effect_dates, carb_entries[i].start) \div 60)
    - delay

MinPredictedGrams(i) ==
    linearly_absorbed_carbs(carb_entries[i].quantity, ElapsedTime(i),
                            builder_max_absorb_times(i))

\* lines 236-279; evaluated only when builder_max_absorb_times(i) # 0
absorption_result(builder_index) ==
    LET entry_grams == R(carb_entries[builder_index].quantity)
        clamped_grams == ClampedGrams(entry_grams,
                                      MinPredictedGrams(builder_index),
                                      ObservedGrams(builder_index))
        min_absorption_rate == Rate(builder_index)
        estimated_time_remaining ==
            IF RLt(Zero, min_absorption_rate)
            THEN RDiv(RSub(entry_grams, clamped_grams), min_absorption_rate)
            ELSE Zero
    IN  <<entry_grams,
          clamped_grams,
          entry_grams,
          RSub(entry_grams, clamped_grams),
          carb_entries[builder_index].start,
          IF observed_completion_dates[builder_index] # None
          THEN observed_completion_dates[builder_index]
          ELSE last_effect_dates,
          estimated_time_remaining>>

\* lines 283-306; exposed = FALSE stands for the None the code returns
clamped_timeline(builder_index) ==
    IF RLe(MinPredictedGrams(builder_index), ObservedGrams(builder_index))
    THEN [exposed |-> TRUE, records |-> observed_timelines[builder_index]]
    ELSE [exposed |-> FALSE, records |-> <<>>]

\* lines 308-314
entry_properties(i) ==
    <<builder_carb_sensitivities(i), builder_max_absorb_times(i),
      builder_max_end_dates(i), last_effect_dates, entry_effects(i)>>

NoResult == [returned |-> FALSE, absorptions |-> <<>>, timelines |-> <<>>,
             entries |-> <<>>]
EmptyResult == [returned |-> TRUE, absorptions |-> <<>>, timelines |-> <<>>,
                entries |-> <<>>]

\* ------------------------------------------------------------- inputs
\* carb entries come sorted by start time (docstring, line 28)
Sorted(entries) ==
    \A i \in 1..(Len(entries) - 1) : entries[i].start <= entries[i + 1].start

CarbEntryLists ==
    {entries \in UNION {[1..n -> CarbEntry] : n \in 0..MaxEntries} :
        Sorted(entries)}

\* effect samples come in chronological order and do not overlap
Chronological(prev, s) ==
    \/ prev = NoSample
    \/ s.start >= prev.end

\* map_ is about to run line 74; it has no lists of its own yet
MapStart ==
    /\ pc = "call"
    /\ builders = <<>>
    /\ index = 0
    /\ sample = NoSample
    /\ uniform = TRUE
    /\ observed_effects = <<>>
    /\ observed_completion_dates = <<>>
    /\ observed_timelines = <<>>
    /\ step = NoStep
    /\ result = NoResult
    /\ error = "none"

MapInit ==
    /\ carb_entries \in CarbEntryLists
    /\ carb_ratios \in CarbRatioSchedules
    /\ sensitivities \in SensitivitySchedules
    /\ absorption_time_overrun \in AbsorptionTimeOverruns
    /\ default_absorption_time \in DefaultAbsorptionTimes
    /\ delay \in Delays
    /\ num_effects \in 0..MaxEffects
    /\ MapStart

inputVars == <<carb_entries, carb_ratios, sensitivities,
               absorption_time_overrun, default_absorption_time, delay,
               num_effects>>

\* ------------------------------------------------------------- actions
\* lines 74-143.  The parallel input lists are records here, so the
\* assertions of lines 74-84 hold.
Raise(e) ==
    /\ pc' = "raised"
    /\ error' = e
    /\ UNCHANGED <<builders, index, sample, uniform, observed_effects,
                   observed_completion_dates, observed_timelines, step,
                   result>>

Call ==
    /\ pc = "call"
    /\ UNCHANGED <<inputVars, doseVars, callerVars, linearVars>>
    /\ IF carb_entries = <<>> \/ carb_ratios = <<>> \/ sensitivities = <<>>
       THEN \* lines 86-89
            /\ pc' = "done"
            /\ result' = EmptyResult
            /\ UNCHANGED <<builders, index, sample, uniform,
                           observed_effects, observed_completion_dates,
                           observed_timelines, step, error>>
       ELSE IF num_effects = 0
       THEN \* line 125: effect_ends[len(effect_ends)-1] of an empty list
            Raise("IndexError")
       ELSE /\ pc' = "loop"
            /\ builders' =
                   [i \in builder_entry_indexes |->
                       [carb_sensitivity |-> CarbSensitivity(carb_entries[i]),
                        max_absorb_time |-> MaxAbsorbTime(carb_entries[i]),
                        max_end_date |-> MaxEndDate(carb_entries[i]),
                        entry_effect |-> EntryEffect(carb_entries[i])]]
            /\ observed_effects' = NewObservedEffects
            /\ observed_completion_dates' =
                   [i \in builder_entry_indexes |-> None]
            /\ observed_timelines' = [i \in builder_entry_indexes |-> <<>>]
            /\ UNCHANGED <<index, sample, uniform, step, result, error>>

\* lines 166-234: the body of the loop at line 165, for the sample s
SampleStep(s) ==
        \E active \in {active_builders(s)} :
           IF s.start >= s.end
           THEN \* lines 167-168
                /\ index' = index + 1
                /\ sample' = s
                /\ uniform' = (uniform /\ (index = 0 \/ s.value = sample.value))
                /\ step' = [NoStep EXCEPT !.kind = "skipped",
                                          !.previous_end = sample.end]
                /\ UNCHANGED <<pc, builders, observed_effects,
                               observed_completion_dates,
                               observed_timelines, result, error>>
           ELSE IF \E k \in 1..Len(active) :
                      builder_max_absorb_times(active[k]) = 0
           THEN \* lines 184-185: division by zero in reduce_func
                Raise("ZeroDivisionError")
           ELSE \E w0 \in {WalkStart(active, s)} :
                \E w \in {Walk(w0, active, 1, s)} :
                    /\ index' = index + 1
                    /\ sample' = s
                    /\ uniform' =
                          (uniform /\ (index = 0 \/ s.value = sample.value))
                    /\ observed_effects' = w.observed
                    /\ observed_completion_dates' = w.completion
                    /\ observed_timelines' = w.timelines
                    /\ step' = [kind |-> "walked", active |-> active,
                                total_rate |-> w0.total_rate,
                                effect_value |-> w0.effect_value,
                                remainder |-> w.effect_value,
                                partial |-> w.partial,
                                credited |-> w.credited,
                                overrun |-> w.overrun,
                                previous_end |-> None]
                    /\ UNCHANGED <<pc, builders, result, error>>

\* one iteration of the loop at line 165; the sample it reads is drawn here
Sample ==
    /\ pc = "loop"
    /\ index < num_effects
    /\ UNCHANGED <<inputVars, doseVars, callerVars, linearVars>>
    /\ \E s \in EffectSample :
        /\ Chronological(sample, s)
        /\ SampleStep(s)

\* the same iteration when the caller holds the effect lists: the sample
\* is effect_starts/ends/values[index]
GivenSample ==
    /\ pc = "loop"
    /\ index < num_effects
    /\ UNCHANGED <<inputVars, doseVars, callerVars, linearVars>>
    /\ SampleStep(effects[index + 1])

\* lines 316-328
Finish ==
    /\ pc = "loop"
    /\ index = num_effects
    /\ UNCHANGED <<inputVars, doseVars, callerVars, linearVars>>
    /\ IF \E i \in builder_entry_indexes : builder_max_absorb_times(i) = 0
       THEN \* lines 261-262: division by zero in absorption_result
            Raise("ZeroDivisionError")
       ELSE /\ pc' = "done"
            /\ result' =
                 [returned |-> TRUE,
                  absorptions |->
                      [i \in builder_entry_indexes |-> absorption_result(i)],
                  timelines |->
                      [i \in builder_entry_indexes |-> clamped_timeline(i)],
                  entries |->
                      [i \in builder_entry_indexes |-> entry_properties(i)]]
            /\ UNCHANGED <<builders, index, sample, uniform,
                           observed_effects, observed_completion_dates,
                           observed_timelines, step, error>>

\* =========================================================== dose_store.py
MaxDoses == 2

DoseTypes == {"bolus", "tempBasal"}
\* minutes relative to the time the query is about
DoseTimes == {-1500, -100, -10, 10}
\* [DIA in hours] (Walsh), [DIA in minutes, peak] (exponential), and a
\* descriptor with three parameters
InsulinModels == {<<2>>, <<90, 30>>, <<90, 30, 1>>}
EndDates == {None, 60}
NoDate == -100000

SeqsUpTo(S, n) == UNION {[1..k -> S] : k \in 0..n}

Entry == {"get_glucose_effects", "get_insulin_on_board_values",
          "get_last_bolus_time"}

DoseInit ==
    /\ d_fn \in Entry
    /\ d_pc = "start"
    /\ d_types \in SeqsUpTo(DoseTypes, MaxDoses)
    /\ d_starts \in SeqsUpTo(DoseTimes, MaxDoses)
    /\ d_ends_len \in 0..MaxDoses
    /\ d_values_len \in 0..MaxDoses
    /\ insulin_model \in (IF d_fn = "get_last_bolus_time" THEN {<<>>}
                          ELSE InsulinModels)
    /\ start_date = 0
    /\ end_date \in (IF d_fn = "get_last_bolus_time" THEN {None}
                     ELSE EndDates)
    /\ dose_start = NoDate
    /\ d_doses = <<>>
    /\ d_trace = <<>>
    /\ d_result = [kind |-> "none"]
    /\ d_error = "none"

DoseIdle ==
    /\ d_fn = "none"
    /\ d_pc = "idle"
    /\ d_types = <<>>
    /\ d_starts = <<>>
    /\ d_ends_len = 0
    /\ d_values_len = 0
    /\ insulin_model = <<>>
    /\ start_date = 0
    /\ end_date = None
    /\ dose_start = NoDate
    /\ d_doses = <<>>
    /\ d_trace = <<>>
    /\ d_result = [kind |-> "none"]
    /\ d_error = "none"

MapIdle ==
    /\ pc = "idle"
    /\ carb_entries = <<>>
    /\ carb_ratios = <<>>
    /\ sensitivities = <<>>
    /\ absorption_time_overrun = 1
    /\ default_absorption_time = 0
    /\ delay = 0
    /\ num_effects = 0
    /\ builders = <<>>
    /\ index = 0
    /\ sample = NoSample
    /\ uniform = TRUE
    /\ observed_effects = <<>>
    /\ observed_completion_dates = <<>>
    /\ observed_timelines = <<>>
    /\ step = NoStep
    /\ result = NoResult
    /\ error = "none"

doseInputs == <<d_fn, d_types, d_starts, d_ends_len, d_values_len,
                insulin_model, start_date, end_date>>

ShapesMatch ==
    /\ Len(d_types) = Len(d_starts)
    /\ Len(d_starts) = d_ends_len
    /\ d_ends_len = d_values_len

\* the step name is logged and control moves to the statement next
DoseStep(name, next) ==
    /\ d_trace' = Append(d_trace, name)
    /\ d_pc' = next

DoseRaise(name, e) ==
    /\ d_trace' = Append(d_trace, name)
    /\ d_pc' = "raised"
    /\ d_error' = e
    /\ UNCHANGED <<dose_start, d_doses, d_result>>

\* the first statement of each entry point: only get_glucose_effects
\* (lines 61-62) asserts that the input shapes match
DoseEnter ==
    /\ d_pc = "start"
    /\ UNCHANGED <<mapVars, doseInputs, callerVars, linearVars>>
    /\ IF d_fn = "get_glucose_effects"
       THEN IF ShapesMatch
            THEN /\ DoseStep("assert", "back_date")
                 /\ UNCHANGED <<dose_start, d_doses, d_result, d_error>>
            ELSE DoseRaise("assert", "AssertionError")
       ELSE /\ d_pc' = "back_date"
            /\ UNCHANGED <<dose_start, d_doses, d_trace, d_result, d_error>>

\* lines 66-77 and 204-215: hours for one parameter, minutes otherwise;
\* line 146: 24 hours
BackDate ==
    /\ d_pc = "back_date"
    /\ UNCHANGED <<mapVars, doseInputs, callerVars, linearVars>>
    /\ dose_start' =
          IF d_fn = "get_last_bolus_time" THEN start_date - 24 * 60
          ELSE IF Len(insulin_model) = 1
               THEN start_date - insulin_model[1] * 60
               ELSE start_date - insulin_model[1]
    /\ DoseStep("back_date", "filter")
    /\ UNCHANGED <<d_doses, d_result, d_error>>

\* filter_date_range_for_doses: rejects lists of unequal length; keeps the
\* doses that start in [dose_start, end_date]
FilterDateRangeForDoses(types, starts, from, to) ==
    LET keep == SelectSeq([i \in 1..Len(starts) |-> i],
                          LAMBDA i : /\ starts[i] >= from
                                     /\ (to = None \/ starts[i] <= to))
    IN  [k \in 1..Len(keep) |->
            [type |-> types[keep[k]], start |-> starts[keep[k]]]]

\* lines 79-83, 148-152, 217-221
Filter ==
    /\ d_pc = "filter"
    /\ UNCHANGED <<mapVars, doseInputs, callerVars, linearVars>>
    /\ IF ~ShapesMatch
       THEN DoseRaise("filter", "AssertionError")
       ELSE /\ d_doses' = FilterDateRangeForDoses(d_types, d_starts,
                                                  dose_start, end_date)
            /\ DoseStep("filter",
                        IF d_fn = "get_last_bolus_time" THEN "sort"
                        ELSE "reconcile")
            /\ UNCHANGED <<dose_start, d_result, d_error>>

\* lines 87-89, 225-227: reconciled changes ends and values only
Reconcile ==
    /\ d_pc = "reconcile"
    /\ UNCHANGED <<mapVars, doseInputs, callerVars, linearVars>>
    /\ DoseStep("reconcile", "sort")
    /\ UNCHANGED <<dose_start, d_doses, d_result, d_error>>

\* sort_dose_lists: stable, by start
RECURSIVE SortDoseLists(_)
SortDoseLists(doses) ==
    IF Len(doses) <= 1 THEN doses
    ELSE LET rest == SortDoseLists(Tail(doses))
             before == SelectSeq(rest, LAMBDA d : d.start < Head(doses).start)
             after == SelectSeq(rest, LAMBDA d : d.start >= Head(doses).start)
         IN  before \o <<Head(doses)>> \o after

\* lines 92, 155, 230
Sort ==
    /\ d_pc = "sort"
    /\ UNCHANGED <<mapVars, doseInputs, callerVars, linearVars>>
    /\ d_doses' = SortDoseLists(d_doses)
    /\ DoseStep("sort",
                IF d_fn = "get_last_bolus_time" THEN "scan" ELSE "annotate")
    /\ UNCHANGED <<dose_start, d_result, d_error>>

\* lines 95-104, 233-242: annotated adds the scheduled basal rates
Annotate ==
    /\ d_pc = "annotate"
    /\ UNCHANGED <<mapVars, doseInputs, callerVars, linearVars>>
    /\ DoseStep("annotate", "trim")
    /\ UNCHANGED <<dose_start, d_doses, d_result, d_error>>

\* lines 107-115, 245-254: starts are clipped to dose_start
Trim ==
    /\ d_pc = "trim"
    /\ UNCHANGED <<mapVars, doseInputs, callerVars, linearVars>>
    /\ d_doses' = [i \in 1..Len(d_doses) |->
                      [d_doses[i] EXCEPT
                          !.start = IF @ < dose_start THEN dose_start ELSE @]]
    /\ DoseStep("trim", "effects")
    /\ UNCHANGED <<dose_start, d_result, d_error>>

\* glucose_effects / insulin_on_board: a descriptor with neither one nor
\* two parameters is an InvalidModel; the timeline has one sample every
\* GridStep minutes from start up to end (one grid step when end is None)
GridStep == 30

EffectDates(start, end) ==
    LET last == IF end = None THEN start + GridStep ELSE end
    IN  [k \in 1..((last - start) \div GridStep + 1) |->
            start + (k - 1) * GridStep]

\* lines 118-125, 257-263
Effects ==
    /\ d_pc = "effects"
    /\ UNCHANGED <<mapVars, doseInputs, callerVars, linearVars>>
    /\ IF Len(insulin_model) \notin {1, 2}
       THEN DoseRaise("effects", "InvalidModel")
       ELSE /\ d_result' = [kind |-> "timeline",
                            dates |-> EffectDates(start_date, end_date)]
            /\ DoseStep("effects",
                        IF d_fn = "get_glucose_effects" THEN "post_filter"
                        ELSE "done")
            /\ UNCHANGED <<dose_start, d_doses, d_error>>

\* filter_date_range: keeps the dates in [start_date, end_date]
FilterDateRange(dates, from, to) ==
    SelectSeq(dates, LAMBDA t : t >= from /\ (to = None \/ t <= to))

\* lines 129-139
PostFilter ==
    /\ d_pc = "post_filter"
    /\ UNCHANGED <<mapVars, doseInputs, callerVars, linearVars>>
    /\ d_result' = [d_result EXCEPT
                       !.dates = FilterDateRange(@, start_date, end_date)]
    /\ DoseStep("post_filter", "done")
    /\ UNCHANGED <<dose_start, d_doses, d_error>>

\* lines 157-165: the start of the last dose of type bolus, or None
RECURSIVE LastBolus(_, _)
LastBolus(doses, i) ==
    IF i = 0 THEN None
    ELSE IF doses[i].type = "bolus" THEN doses[i].start
    ELSE LastBolus(doses, i - 1)

Scan ==
    /\ d_pc = "scan"
    /\ UNCHANGED <<mapVars, doseInputs, callerVars, linearVars>>
    /\ d_result' = [kind |-> "time", time |-> LastBolus(d_doses, Len(d_doses))]
    /\ DoseStep("scan", "done")
    /\ UNCHANGED <<dose_start, d_doses, d_error>>

\* ====================================================== specifications
vars == <<mapVars, doseVars, callerVars, linearVars>>

NoOutput == [kind |-> "none"]

CallerIdle ==
    /\ call_no = 1
    /\ first_output = NoOutput
    /\ arguments = <<>>
    /\ effects = <<>>

NoPercent == <<-1, 1>>

LinearIdle ==
    /\ lin_pc = "idle"
    /\ lin_time = 0
    /\ lin_absorption_time = 0
    /\ lin_percent = NoPercent
    /\ lin_previous = [time |-> 0, percent |-> NoPercent]

Init == MapInit /\ DoseIdle /\ CallerIdle /\ LinearIdle

Next == Call \/ Sample \/ Finish

Spec == Init /\ [][Next]_vars

DoseSpecInit == MapIdle /\ DoseInit /\ CallerIdle /\ LinearIdle

DoseNext ==
    \/ DoseEnter
    \/ BackDate
    \/ Filter
    \/ Reconcile
    \/ Sort
    \/ Annotate
    \/ Trim
    \/ Effects
    \/ PostFilter
    \/ Scan

DoseSpec == DoseSpecInit /\ [][DoseNext]_vars

\* ------------------- map_ with one carb entry more and a single sample
\* line 227 compares an entry index with a position in active_builders;
\* the two can differ in the middle of the walk from three entries on
WideEntryLists ==
    {entries \in [1..(MaxEntries + 1) -> CarbEntry] : Sorted(entries)}

WideInit ==
    /\ carb_entries \in WideEntryLists
    /\ carb_ratios = Schedule(1)
    /\ sensitivities = Schedule(2)
    /\ absorption_time_overrun = 1
    /\ default_absorption_time \in DefaultAbsorptionTimes
    /\ delay \in Delays
    /\ num_effects = 1
    /\ MapStart
    /\ DoseIdle
    /\ CallerIdle
    /\ LinearIdle

WideSpec == WideInit /\ [][Next]_vars

\* ------------------------- linear_percent_absorption_at_time by itself
MaxAbsorptionTime == 6

\* time is relative to the meal: before it, within the absorption time, past
LinearTimes == (-1)..(MaxAbsorptionTime + 1)

LinearInit ==
    /\ lin_pc = "call"
    /\ lin_time \in LinearTimes
    /\ lin_absorption_time \in 1..MaxAbsorptionTime
    /\ lin_percent = NoPercent
    /\ lin_previous = [time |-> 0, percent |-> NoPercent]

\* lines 346-361
ApplyLinear ==
    /\ lin_pc = "call"
    /\ lin_percent' =
          linear_percent_absorption_at_time(lin_time, lin_absorption_time)
    /\ lin_pc' = "returned"
    /\ UNCHANGED <<lin_time, lin_absorption_time, lin_previous, mapVars,
                   doseVars, callerVars>>

\* the caller moves on to the next minute, keeping the value it got
LaterTime ==
    /\ lin_pc = "returned"
    /\ lin_time <= MaxAbsorptionTime
    /\ lin_previous' = [time |-> lin_time, percent |-> lin_percent]
    /\ lin_time' = lin_time + 1
    /\ lin_percent' = NoPercent
    /\ lin_pc' = "call"
    /\ UNCHANGED <<lin_absorption_time, mapVars, doseVars, callerVars>>

LinearSpecInit == MapIdle /\ DoseIdle /\ CallerIdle /\ LinearInit

LinearNext == ApplyLinear \/ LaterTime

LinearSpec == LinearSpecInit /\ [][LinearNext]_vars

\* ------------------------------------------ two calls, same arguments
\* the effect lists given whole: chronological, not overlapping
EffectLists ==
    {es \in UNION {[1..n -> EffectSample] : n \in 0..MaxEffects} :
        \A k \in 1..(Len(es) - 1) : Chronological(es[k], es[k + 1])}

MapArguments == <<carb_entries, carb_ratios, sensitivities,
                  absorption_time_overrun, default_absorption_time, delay,
                  effects>>

DoseArguments == <<d_types, d_starts, d_ends_len, d_values_len,
                   insulin_model, start_date, end_date>>

MapOutput == [kind |-> "map_", result |-> result, error |-> error]

DoseOutput == [kind |-> d_fn, result |-> d_result, error |-> d_error]

\* map_ with entries of 1 g, both schedules given, no delay and no overrun
\* factor beyond 1
TwiceMapInit ==
    /\ effects \in EffectLists
    /\ num_effects = Len(effects)
    /\ carb_entries \in {entries \in CarbEntryLists :
                            \A i \in 1..Len(entries) : entries[i].quantity = 1}
    /\ carb_ratios = Schedule(1)
    /\ sensitivities = Schedule(2)
    /\ absorption_time_overrun = 1
    /\ delay = 0
    /\ MapInit
    /\ DoseIdle
    /\ arguments = MapArguments

\* the entry points of dose_store.py with as many ends and values as types
TwiceDoseInit ==
    /\ effects = <<>>
    /\ MapIdle
    /\ d_types \in SeqsUpTo(DoseTypes, MaxDoses)
    /\ d_ends_len = Len(d_types)
    /\ d_values_len = Len(d_types)
    /\ DoseInit
    /\ arguments = DoseArguments

TwiceInit ==
    /\ call_no = 1
    /\ first_output = NoOutput
    /\ LinearIdle
    /\ (TwiceMapInit \/ TwiceDoseInit)

\* map_ has returned or raised; the caller calls it again with the same
\* arguments.  The new call starts at line 74 with a frame of its own; the
\* lists of the finished call are garbage, and lines 91-139 build new ones.
MapAgain ==
    /\ call_no = 1
    /\ pc \in {"done", "raised"}
    /\ call_no' = 2
    /\ first_output' = MapOutput
    /\ pc' = "call"
    /\ index' = 0
    /\ sample' = NoSample
    /\ uniform' = TRUE
    /\ step' = NoStep
    /\ result' = NoResult
    /\ error' = "none"
    /\ UNCHANGED <<inputVars, builders, observed_effects,
                   observed_completion_dates, observed_timelines,
                   arguments, effects, doseVars, linearVars>>

\* the same for an entry point of dose_store.py
DoseAgain ==
    /\ call_no = 1
    /\ d_pc \in {"done", "raised"}
    /\ call_no' = 2
    /\ first_output' = DoseOutput
    /\ d_pc' = "start"
    /\ dose_start' = NoDate
    /\ d_doses' = <<>>
    /\ d_trace' = <<>>
    /\ d_result' = [kind |-> "none"]
    /\ d_error' = "none"
    /\ UNCHANGED <<doseInputs, arguments, effects, mapVars, linearVars>>

TwiceNext ==
    \/ Call
    \/ GivenSample
    \/ Finish
    \/ MapAgain
    \/ DoseNext
    \/ DoseAgain

TwiceSpec == TwiceInit /\ [][TwiceNext]_vars

\* ================================================================ claims
RECURSIVE SumOver(_, _, _)
\* the sum of amounts[active[k]] for k = from..Len(active)
SumOver(amounts, active, from) ==
    IF from > Len(active) THEN Zero
    ELSE RAdd(amounts[active[from]], SumOver(amounts, active, from + 1))

RECURSIVE PlainRateSum(_, _)
PlainRateSum(active, from) ==
    IF from > Len(active) THEN Zero
    ELSE RAdd(Rate(active[from]), PlainRateSum(active, from + 1))

Walked == pc = "loop" /\ step.kind = "walked"

\* C1: every active entry of a non-degenerate sample has the amount
\* allocated to it added to its observedEffect accumulator.
C1_AllocationCredited ==
    Walked =>
        \A k \in 1..Len(step.active) :
            step.credited[step.active[k]] = step.partial[step.active[k]]

\* C2: with two or more active entries, totalRate before the walk is the
\* plain sum of quantity/maxAbsorptionTime over the active entries, and the
\* first active entry, when its expected effect does not cap it, is
\* allocated rate_first / sum x max(0, effectValue).
C2_TotalRateIsPlainSum ==
    (Walked /\ Len(step.active) >= 2) =>
        LET sum == PlainRateSum(step.active, 1)
            first == step.active[1]
            share == RMul(RDiv(Rate(first), sum), step.effect_value)
        IN  /\ step.total_rate = sum
            /\ (sum # Zero /\ RLe(share, RMax(entry_effects(first), Zero)))
                  => step.partial[first] = share

\* C3: when the effect value left after the walk exceeds epsilon, the whole
\* remainder is added to the observedEffect of the last entry of the active
\* list and to no other entry (stated for a last active entry that starts
\* with the sample, which add_next_effect's guard lets through).
C3_RemainderToLastActive ==
    (/\ Walked
     /\ Len(step.active) >= 1
     /\ RLt(Epsilon, step.remainder)
     /\ carb_entries[step.active[Len(step.active)]].start = sample.start) =>
        LET last == step.active[Len(step.active)]
        IN  /\ step.overrun[last] = step.remainder
            /\ \A i \in builder_entry_indexes :
                  i # last => step.overrun[i] = Zero

\* C4: the amounts the proportional waterfall adds to observedEffect over
\* the active entries of one sample sum to at most max(0, effectValue).
C4_WaterfallWithinEffect ==
    Walked =>
        /\ RLe(SumOver(step.credited, step.active, 1), step.effect_value)
        /\ step.effect_value = RMax(Zero, R(sample.value))

\* C4 witness: two entries are credited a positive amount by one sample
C4_Witness ==
    /\ Walked
    /\ Len(step.active) >= 2
    /\ \A k \in 1..2 : RLt(Zero, step.credited[step.active[k]])

\* C5: two overlapping entries, constant positive effect series: once the
\* first entry's observed effect had reached its expected effect, a sample
\* for which both are active adds nothing to the first entry and adds the
\* sample's whole effect value to the second.
C5_CompletedEntryGetsNothing ==
    (/\ Walked
     /\ Len(carb_entries) = 2
     /\ uniform
     /\ sample.value > 0
     /\ step.active = <<1, 2>>
     /\ RLt(Zero, entry_effects(1))
     /\ RLe(entry_effects(1),
            RSub(observed_effects[1],
                 RAdd(step.credited[1], step.overrun[1])))) =>
        /\ RAdd(step.credited[1], step.overrun[1]) = Zero
        /\ RAdd(step.credited[2], step.overrun[2]) = R(sample.value)

Returned == pc = "done" /\ result.returned

\* C6: every absorption result has 0 <= clampedGrams <= totalGrams,
\* clampedGrams >= minPredictedGrams and
\* remainingGrams = totalGrams - clampedGrams >= 0.
C6_ClampedWithinBounds ==
    Returned =>
        \A i \in 1..Len(result.absorptions) :
            LET a == result.absorptions[i]
            IN  /\ a[3] = R(carb_entries[i].quantity)
                /\ RLe(Zero, a[2])
                /\ RLe(a[2], a[3])
                /\ RLe(MinPredictedGrams(i), a[2])
                /\ a[4] = RSub(a[3], a[2])
                /\ RLe(Zero, a[4])

\* C6 witness: a result for an entry observed to absorb more than it holds,
\* and one for an entry observed below the linear floor
C6_Witness ==
    /\ Returned
    /\ \E i \in 1..Len(result.absorptions) :
          RLt(R(carb_entries[i].quantity), ObservedGrams(i))
    /\ \E i \in 1..Len(result.absorptions) :
          RLt(ObservedGrams(i), MinPredictedGrams(i))

\* C7: with a carb entry, non-empty schedules and no effect samples, map_
\* returns a result and raises nothing.
C7_EmptyEffectsReturn ==
    (/\ carb_entries # <<>>
     /\ carb_ratios # <<>>
     /\ sensitivities # <<>>
     /\ num_effects = 0) => pc # "raised"

\* C8: map_ never faults on a division by zero.
C8_NoDivisionByZero == error # "ZeroDivisionError"

\* C10: element 0 of an absorption result is the observed grams
\* (observedEffect / carbSensitivity), element 1 the clamped grams,
\* element 2 the entry's grams, element 3 the remaining grams.
C10_ResultLayout ==
    Returned =>
        \A i \in 1..Len(result.absorptions) :
            LET a == result.absorptions[i]
                entry_grams == R(carb_entries[i].quantity)
                clamped == ClampedGrams(entry_grams, MinPredictedGrams(i),
                                        ObservedGrams(i))
            IN  /\ a[1] = ObservedGrams(i)
                /\ a[2] = clamped
                /\ a[3] = entry_grams
                /\ a[4] = RSub(entry_grams, clamped)

\* C9: an entry point of dose_store.py given parallel lists of unequal
\* length fails with a shape-mismatch error before any other step (window
\* back-dating, filtering, reconciliation): the only step it ever carries
\* out is the shape assertion.  (map_ asserts its shapes at lines 74-84,
\* ahead of everything in Call.)
C9_ShapeCheckedFirst ==
    ~ShapesMatch =>
        \A k \in 1..Len(d_trace) : d_trace[k] = "assert"

\* the starts of the bolus doses of the input that lie between now - 24 h
\* and now (get_last_bolus_time takes now as start_date here)
BolusStartsInWindow ==
    {d_starts[i] : i \in {j \in 1..Len(d_starts) :
                             /\ j <= Len(d_types)
                             /\ d_types[j] = "bolus"
                             /\ d_starts[j] >= start_date - 24 * 60
                             /\ d_starts[j] <= start_date}}

SetMax(S) == CHOOSE x \in S : \A y \in S : y <= x

\* C11: get_last_bolus_time returns the latest start among the bolus doses
\* that lie between now - 24 h and now, and none when there is no such dose.
C11_LastBolusInWindow ==
    (d_fn = "get_last_bolus_time" /\ d_pc = "done") =>
        d_result.time = IF BolusStartsInWindow = {} THEN None
                        ELSE SetMax(BolusStartsInWindow)

\* C12: get_glucose_effects and get_insulin_on_board_values reject a model
\* descriptor with neither one nor two parameters: no dose window is ever
\* back-dated from such a descriptor and the call never returns a timeline.
C12_InvalidModelRejected ==
    (/\ d_fn \in {"get_glucose_effects", "get_insulin_on_board_values"}
     /\ Len(insulin_model) \notin {1, 2}) =>
        /\ dose_start = NoDate
        /\ d_pc # "done"

\* C13: a timeline returned by get_glucose_effects or
\* get_insulin_on_board_values was produced by the steps filter, reconcile,
\* sort, annotate, trim, effect model and post-filter, in this order, and
\* every date of it lies in [start_date, end_date].
C13_PipelineThenPostFilter ==
    (/\ d_fn \in {"get_glucose_effects", "get_insulin_on_board_values"}
     /\ d_pc = "done") =>
        /\ SelectSeq(d_trace, LAMBDA name : name \notin {"assert", "back_date"})
              = <<"filter", "reconcile", "sort", "annotate", "trim",
                  "effects", "post_filter">>
        /\ \A k \in 1..Len(d_result.dates) :
              /\ d_result.dates[k] >= start_date
              /\ (end_date = None \/ d_result.dates[k] <= end_date)

C15_LinearPercent ==
    lin_pc = "returned" =>
        /\ lin_time <= 0 => lin_percent = Zero
        /\ lin_time >= lin_absorption_time => lin_percent = R(1)
        /\ RLe(Zero, lin_percent)
        /\ RLe(lin_percent, R(1))
        /\ (/\ lin_previous.percent # NoPercent
            /\ 0 < lin_previous.time
            /\ lin_time < lin_absorption_time) =>
               RLt(lin_previous.percent, lin_percent)

\* C15 witness: values at two successive minutes, both inside (0, T)
C15_Witness ==
    /\ lin_pc = "returned"
    /\ lin_previous.percent # NoPercent
    /\ 0 < lin_previous.time
    /\ lin_time < lin_absorption_time

RECURSIVE TimelineEffect(_, _, _)
\* the effect the first k records of an entry's timeline account for
TimelineEffect(i, timeline, k) ==
    IF k = 0 THEN Zero
    ELSE RAdd(TimelineEffect(i, timeline, k - 1),
              RMul(timeline[k].value, builder_carb_sensitivities(i)))

\* C16: an entry with a completion time has a timeline that ends with the
\* record of the sample that brought its effect up to the expected effect:
\* the completion time is that record's end, and no record before it had
\* reached the expected effect, so nothing was recorded or re-dated after
\* completion, by a later sample or by an overrun credit.
C16_CompletionIsFinal ==
    pc \in {"loop", "done"} =>
        \A i \in 1..Len(observed_completion_dates) :
            observed_completion_dates[i] # None =>
                LET timeline == observed_timelines[i]
                    n == Len(timeline)
                IN  /\ n >= 1
                    /\ timeline[n].end = observed_completion_dates[i]
                    /\ RLe(entry_effects(i), TimelineEffect(i, timeline, n))
                    /\ \A k \in 1..(n - 1) :
                          RLt(TimelineEffect(i, timeline, k), entry_effects(i))

\* C16 witness: an entry completed by the allocation of a sample is given
\* the overrun of that very sample, and a later sample finds it active
C16_Witness ==
    /\ Walked
    /\ \E i \in 1..Len(observed_completion_dates) :
          /\ observed_completion_dates[i] # None
          /\ observed_completion_dates[i] < sample.end
          /\ \E k \in 1..Len(step.active) : step.active[k] = i
          /\ RLt(Zero, step.partial[i])
          /\ RLt(entry_effects(i), observed_effects[i])

\* C17: when the last effect sample is degenerate and is not the only
\* sample, map_ returns what it returns for the timeline without it; in
\* particular the last effect date among the entry properties, and the
\* observed end of an entry that never completed, are the end of the sample
\* before it.
C17_DegenerateSampleSkipped ==
    (Returned /\ step.kind = "skipped" /\ step.previous_end # None) =>
        \A i \in 1..Len(result.entries) :
            /\ result.entries[i][4] = step.previous_end
            /\ result.absorptions[i][6] =
                  IF observed_completion_dates[i] # None
                  THEN observed_completion_dates[i]
                  ELSE step.previous_end

\* C18: every amount a sample adds to an entry's observedEffect, as its
\* allocation or as overrun, is >= 0, so every observedEffect is >= 0 and
\* does not decrease; a sample with a negative value adds 0 to every entry.
C18_CreditsNonNegative ==
    /\ \A i \in 1..Len(observed_effects) : RLe(Zero, observed_effects[i])
    /\ Walked =>
          \A i \in builder_entry_indexes :
              /\ RLe(Zero, step.credited[i])
              /\ RLe(Zero, step.overrun[i])
              /\ sample.value < 0 =>
                    /\ step.credited[i] = Zero
                    /\ step.overrun[i] = Zero

\* C18 witness: a sample with a negative value went through add_next_effect
\* for an entry that holds carbs and starts with the sample
C18_Witness ==
    /\ Walked
    /\ sample.value < 0
    /\ \E k \in 1..Len(step.active) :
          /\ carb_entries[step.active[k]].start = sample.start
          /\ carb_entries[step.active[k]].quantity > 0
          /\ Len(observed_timelines[step.active[k]]) >= 1

\* the sample starts in [carbEntryStart, maxEndTime) of entry i
InWindow(i) ==
    /\ carb_entries[i].start <= sample.start
    /\ sample.start < carb_entries[i].start + builder_max_absorb_times(i)
                          + delay

\* C19: a sample that starts before an entry or at/after its maxEndTime adds
\* nothing to the entry's observedEffect, neither allocation nor overrun,
\* puts no record on its timeline and does not set its completion time.
C19_OnlyWindowSamplesCount ==
    Walked =>
        \A i \in builder_entry_indexes :
            ~InWindow(i) =>
                /\ step.credited[i] = Zero
                /\ step.overrun[i] = Zero
                /\ \A k \in 1..Len(observed_timelines[i]) :
                      observed_timelines[i][k].start # sample.start
                /\ observed_completion_dates[i] # sample.end

\* C19 witness: a sample credits an overrun remainder while another entry
\* has not started yet
C19_Witness ==
    /\ Walked
    /\ \E i \in builder_entry_indexes : sample.start < carb_entries[i].start
    /\ \E j \in builder_entry_indexes : RLt(Zero, step.overrun[j])

RECURSIVE SumAll(_, _)
\* the sum of amounts[1..n]
SumAll(amounts, n) ==
    IF n = 0 THEN Zero ELSE RAdd(SumAll(amounts, n - 1), amounts[n])

\* C20: what one sample adds to all observedEffect accumulators together,
\* allocations plus overrun, is at most max(0, effectValue).
C20_SampleCreditedOnce ==
    Walked =>
        RLe(RAdd(SumAll(step.credited, Len(step.credited)),
                 SumAll(step.overrun, Len(step.overrun))),
            RMax(Zero, R(sample.value)))

\* C21: every entry's observed-absorption timeline has strictly increasing
\* start times: it holds at most one record per effect sample.
C21_OneRecordPerSample ==
    \A i \in 1..Len(observed_timelines) :
        \A k \in 1..(Len(observed_timelines[i]) - 1) :
            observed_timelines[i][k].start < observed_timelines[i][k + 1].start

\* C22: in every absorption result the observed start (the entry's start)
\* is not later than the observed end (the completion time, or the end of
\* the last effect sample).
C22_ObservedStartBeforeEnd ==
    Returned =>
        \A i \in 1..Len(result.absorptions) :
            result.absorptions[i][5] <= result.absorptions[i][6]

====
